---- MODULE Spec2Model ----
(***************************************************************************)
(* Gold price notification bot (src/index.js).                             *)
(*                                                                         *)
(* Two kinds of handlers run on one Node.js event loop:                    *)
(*   - detection cycles, checkPriceChanges(), started at startup and by    *)
(*     the cron schedule, never awaited by their caller;                   *)
(*   - inbound updates, processUpdate(update), started by the webhook.     *)
(* A handler runs without interruption from the completion of one network  *)
(* request (axios.post) to the start of the next one; the file operations  *)
(* (fs.*Sync) are synchronous.  Every action below is one such segment.    *)
(***************************************************************************)
EXTENDS Integers, Sequences, FiniteSets, TLC

(* ------------------------------ bounds -------------------------------- *)
\* number of checkPriceChanges invocations that can be in flight at once
MaxCycles == 1
\* number of processUpdate invocations that can be in flight at once
MaxUpdates == 1

Cycles == 1..MaxCycles
Updates == 1..MaxUpdates

(* ------------------------- program constants -------------------------- *)
\* chat identities that occur (update.message.chat.id is a number)
ChatIds == {1, 2}
\* decimal rendering of a chat id, chatId.toString()
ChatIdToString(n) == IF n = 1 THEN "1" ELSE IF n = 2 THEN "2" ELSE "other"
ADMIN_CHAT_ID == "1"
\* the spread applied to a fetched price pair when a Snapshot exists
Margin == 1000

COMMANDS == [START |-> "/start", STOP |-> "/stop", HELP |-> "/help",
             BROADCAST |-> "/broadcast"]

(* ----------------------------- JS values ------------------------------ *)
\* A JavaScript number or null, as a pair, so that all values compare.
Num(n) == <<"num", n>>
NaN == <<"NaN", 0>>
Null == <<"null", 0>>
IsNum(v) == v[1] = "num"

\* ToNumber as the relational operators apply it: null is +0
ToNumber(v) == IF v = Null THEN Num(0) ELSE v
\* a < b; any comparison with NaN is false
JsLess(a, b) ==
    LET x == ToNumber(a)
        y == ToNumber(b)
    IN  IsNum(x) /\ IsNum(y) /\ x[2] < y[2]
\* a - n and a + n on a number that may be NaN
JsMinus(a, n) == IF IsNum(a) THEN Num(a[2] - n) ELSE NaN
JsPlus(a, n) == IF IsNum(a) THEN Num(a[2] + n) ELSE NaN
\* JSON.parse(JSON.stringify(v)) of a number: NaN is written as null
JsonNumber(v) == IF IsNum(v) THEN v ELSE Null

(* ---------------------------- subscribers ----------------------------- *)
\* update.message.from.username of each chat ("" when it has none)
FromUsername(id) == IF id = 1 THEN "ann" ELSE ""
User(id, name) == [chatId |-> id, username |-> name]

\* loadUsers(): the content of USERS_FILE (a missing file is created as [])
LoadUsers(file) == file

\* saveUsers(users): USERS_FILE after the write
SaveUsers(file, users) == users

HasChat(users, id) == \E k \in 1..Len(users) : users[k].chatId = id

\* addUser without the lookup of an existing record
AddUserAlways(file, id, name) ==
    LET users == LoadUsers(file)
    IN  [ret |-> TRUE, file |-> SaveUsers(file, Append(users, User(id, name)))]

\* addUser that appends to a list read before other handlers wrote
AddUserStale(file, id, name) ==
    LET users == LoadUsers(file)
    IN  IF HasChat(users, id)
        THEN [ret |-> FALSE, file |-> file]
        ELSE [ret |-> TRUE, file |-> SaveUsers(file, <<User(id, name)>>)]

\* addUser(chatId, username): the value returned and USERS_FILE afterwards
AddUser(file, id, name) ==
    LET users == LoadUsers(file)
    IN  IF HasChat(users, id)
        THEN [ret |-> FALSE, file |-> file]
        ELSE [ret |-> TRUE,
              file |-> SaveUsers(file, Append(users, User(id, name)))]

\* removeUser with the filter inverted
RemoveUserKeepOnly(file, id) ==
    LET users == LoadUsers(file)
        Same(u) == u.chatId = id
        filteredUsers == SelectSeq(users, Same)
    IN  IF Len(filteredUsers) < Len(users)
        THEN [ret |-> TRUE, file |-> SaveUsers(file, filteredUsers)]
        ELSE [ret |-> FALSE, file |-> file]

\* removeUser(chatId): the value returned and USERS_FILE afterwards
RemoveUser(file, id) ==
    LET users == LoadUsers(file)
        Other(u) == u.chatId # id
        filteredUsers == SelectSeq(users, Other)
    IN  IF Len(filteredUsers) < Len(users)
        THEN [ret |-> TRUE, file |-> SaveUsers(file, filteredUsers)]
        ELSE [ret |-> FALSE, file |-> file]

(* --------------------------- price snapshot --------------------------- *)
\* DATA_FILE holds <<>> (no file) or <<d>>, d the saved object
NoData == <<>>
Data(b, s, u) == [buyPrice |-> b, sellPrice |-> s, lastUpdate |-> u]

\* a write that does not reach the file
SaveDataLost(file, d) == file

\* saveData(data): DATA_FILE after the write; JSON writes NaN as null
SaveData(file, d) ==
    <<Data(JsonNumber(d.buyPrice), JsonNumber(d.sellPrice), d.lastUpdate)>>

\* loadData(): null (NoData) when the file does not exist, else its object
LoadData(file) == file

\* deleteDataFile(): DATA_FILE afterwards
DeleteDataFile(file) == NoData

(* ----------------------------- the fetch ------------------------------ *)
\* Texts of the price fields of a price-list entry, and what parseFloat
\* makes of them.
BuyTexts == {"100000", "101000"}
SellTexts == {"94000", "95000"}
NonNumeric == "n/a"
ParseFloat(s) ==
    CASE s = "100000" -> Num(100000)
      [] s = "101000" -> Num(101000)
      [] s = "94000" -> Num(94000)
      [] s = "95000" -> Num(95000)
      [] OTHER -> NaN

\* Texts of the lastUpdate field; the second is no date
GoodDate == "2025-04-20 08:15:00"
BadDate == "soon"

\* What axios.post(API_URL) can end with: a rejection ("error"), or a
\* response whose body is empty ("empty"), has no data.priceList[0]
\* ("nolist"), or has one ("entry").
Payload(sh, j, b, u) ==
    [shape |-> sh, hargaJual |-> j, hargaBeli |-> b, lastUpdate |-> u]
FetchError == Payload("error", NonNumeric, NonNumeric, BadDate)
Payloads ==
    {FetchError,
     Payload("empty", NonNumeric, NonNumeric, BadDate),
     Payload("nolist", NonNumeric, NonNumeric, BadDate),
     Payload("entry", NonNumeric, "95000", GoodDate),
     Payload("entry", "100000", NonNumeric, GoodDate),
     Payload("entry", "100000", "95000", BadDate)}
    \cup {Payload("entry", j, b, GoodDate) : j \in BuyTexts, b \in SellTexts}

\* The spec's "fetch succeeds": a response with a well-formed first entry
WellFormed(p) ==
    /\ p.shape = "entry"
    /\ IsNum(ParseFloat(p.hargaJual))
    /\ IsNum(ParseFloat(p.hargaBeli))
    /\ p.lastUpdate = GoodDate

(* ----------------------------- formatting ----------------------------- *)
\* A value or a raised exception
Ok(v) == [thrown |-> FALSE, v |-> v]
Throw == [thrown |-> TRUE, v |-> <<"", 0>>]

\* formatPrice(price): price.toLocaleString(...) raises on null
FormatPrice(price) == IF price = Null THEN Throw ELSE Ok(price)

\* formatDate(dateString): toISOString() raises on an invalid date
FormatDate(dateString) ==
    IF dateString = GoodDate THEN Ok(<<"2025-04-20", 0>>) ELSE Throw

\* A message: its template and the values substituted into it
Msg(t, a) == [t |-> t, a |-> a]

\* MESSAGES.PRICE_LIST filled from a snapshot object, or an exception
PriceListMessage(d) ==
    LET fb == FormatPrice(d.buyPrice)
        fs == FormatPrice(d.sellPrice)
        fd == FormatDate(d.lastUpdate)
    IN  IF fb.thrown \/ fs.thrown \/ fd.thrown
        THEN Throw
        ELSE Ok(Msg("PRICE_LIST", <<fb.v, fs.v, fd.v>>))

\* The notifications of the HasSnapshot branch, in the order they are
\* pushed to `messages`, or an exception raised while formatting them
NotificationMessages(previousData, newData) ==
    LET buyDrop == JsLess(newData.buyPrice, previousData.buyPrice)
        sellUp == JsLess(previousData.sellPrice, newData.sellPrice)
        ob == FormatPrice(previousData.buyPrice)
        nb == FormatPrice(newData.buyPrice)
        os == FormatPrice(previousData.sellPrice)
        ns == FormatPrice(newData.sellPrice)
        buyMsgs == IF buyDrop
                   THEN <<Msg("BUY_PRICE_DROPPED", <<ob.v, nb.v>>)>>
                   ELSE <<>>
        sellMsgs == IF sellUp
                    THEN <<Msg("SELL_PRICE_INCREASED", <<os.v, ns.v>>)>>
                    ELSE <<>>
    IN  IF \/ buyDrop /\ (ob.thrown \/ nb.thrown)
           \/ sellUp /\ (os.thrown \/ ns.thrown)
        THEN Throw
        ELSE Ok(buyMsgs \o sellMsgs)

\* the margin applied twice
AdjustTwice(newData) ==
    Data(JsMinus(JsMinus(newData.buyPrice, Margin), Margin),
         JsPlus(JsPlus(newData.sellPrice, Margin), Margin),
         newData.lastUpdate)

\* newData.buyPrice -= 1000; newData.sellPrice += 1000
Adjust(newData) ==
    Data(JsMinus(newData.buyPrice, Margin), JsPlus(newData.sellPrice, Margin),
         newData.lastUpdate)

\* the margin applied already when the object is built
ParseEntryAdjusted(p) ==
    Adjust(Data(ParseFloat(p.hargaJual), ParseFloat(p.hargaBeli),
                p.lastUpdate))

\* The object built from the first price-list entry of a response
ParseEntry(p) ==
    Data(ParseFloat(p.hargaJual), ParseFloat(p.hargaBeli), p.lastUpdate)

(* ----------------------------- broadcast ------------------------------ *)
\* The loop state of one broadcastMessage(message) call: the users read
\* when it was called, the index of the send awaited, the count so far
NoBroadcast ==
    [message |-> Msg("", <<>>), users |-> <<>>, i |-> 1, sentCount |-> 0]

BroadcastStart(file, message) ==
    [message |-> message, users |-> LoadUsers(file), i |-> 1, sentCount |-> 0]

\* the users read again from USERS_FILE at every turn of the loop
BroadcastTargetReread(b, file) ==
    IF b.i <= Len(LoadUsers(file))
    THEN LoadUsers(file)[b.i].chatId
    ELSE b.users[b.i].chatId

\* The chat the awaited sendTelegramMessage of the loop goes to
BroadcastTarget(b, file) == b.users[b.i].chatId

\* every send counted, failed or not
BroadcastStepCountAll(b, sent) ==
    [b EXCEPT !.i = @ + 1, !.sentCount = @ + 1]

\* One turn of the loop, `sent` the value sendTelegramMessage returned
BroadcastStep(b, sent) ==
    [b EXCEPT !.i = @ + 1, !.sentCount = IF sent THEN @ + 1 ELSE @]

BroadcastDone(b) == b.i > Len(b.users)

(* ------------------------------- state -------------------------------- *)
VARIABLES
    usersFile,   \* content of USERS_FILE: a sequence of user objects
    dataFile,    \* content of DATA_FILE: NoData or <<snapshot object>>
    cyc,         \* per checkPriceChanges invocation in flight: its locals
    upd,         \* per processUpdate invocation in flight: its locals
    clog,        \* history of the checkPriceChanges invocation of a slot
    ulog,        \* history of the processUpdate invocation of a slot
    fresh        \* no fetch of this process has succeeded so far

vars == <<usersFile, dataFile, cyc, upd, clog, ulog, fresh>>

\* History of the latest broadcastMessage call of a handler: the chats it
\* read, the chats it has tried so far, how many of these sends failed,
\* the value returned
\* moved: a send was started after USERS_FILE had changed
ChatsOf(file) == [k \in 1..Len(file) |-> file[k].chatId]
BcastLog(file) ==
    [rcpts |-> ChatsOf(file), tried |-> <<>>, fails |-> 0, ret |-> 0,
     done |-> file = <<>>, moved |-> FALSE]
NoBcastLog == BcastLog(<<>>)

BcastLogStep(l, chat, sent, b, file) ==
    [l EXCEPT !.tried = Append(@, chat),
              !.fails = IF sent THEN @ ELSE @ + 1,
              !.ret = IF BroadcastDone(b) THEN b.sentCount ELSE 0,
              !.done = BroadcastDone(b),
              !.moved = @ \/ (~BroadcastDone(b) /\ ChatsOf(file) # l.rcpts)]

\* History of one sendTelegramMessage call outside a broadcast; `to` is
\* the chat_id of the request as text
Direct(to, msg) == [to |-> to, msg |-> msg]

\* locals of a checkPriceChanges invocation
\*   pc: "idle" not called, "fetch" awaiting axios.post in fetchData,
\*       "alert" awaiting the admin message of fetchData's catch,
\*       "send" awaiting a send of broadcastMessage, "done" returned
\*   messages: the messages still to broadcast after the current one
\*   save: <<d>> when saveData(d) follows the broadcasts, else <<>>
CycleLocals(pc, messages, save, b) ==
    [pc |-> pc, messages |-> messages, save |-> save, b |-> b]
CycleIdle == CycleLocals("idle", <<>>, <<>>, NoBroadcast)
CycleDone == CycleLocals("done", <<>>, <<>>, NoBroadcast)

\* History of one checkPriceChanges invocation
\*   fetched: <<p>> once the fetch has ended with p
\*   loaded, prev: loadData() was called, and what it returned
\*   saved: <<d>> once the invocation has written d to DATA_FILE
\*   threw: the catch of line 313 was entered
\*   bcasts: the messages of the broadcastMessage calls made, in order
\*   cur: the latest of these calls
\*   direct: the other sendTelegramMessage calls made
CycleLog0 ==
    [fetched |-> <<>>, prev |-> <<>>, loaded |-> FALSE, saved |-> <<>>,
     threw |-> FALSE, bcasts |-> <<>>, cur |-> NoBcastLog, direct |-> <<>>]

\* The broadcast loop of checkPriceChanges from the point where `msgs`
\* are still to be broadcast and saveData(save[1]) follows them, up to
\* the next awaited send or the return.  With no user every
\* broadcastMessage returns 0 without awaiting a send.
CycleContinue(msgs, save, uf, df, lg) ==
    IF msgs # <<>> /\ LoadUsers(uf) # <<>>
    THEN [c |-> CycleLocals("send", Tail(msgs), save,
                            BroadcastStart(uf, Head(msgs))),
          data |-> df,
          log |-> [lg EXCEPT !.bcasts = Append(@, Head(msgs)),
                             !.cur = BcastLog(uf)]]
    ELSE [c |-> CycleDone,
          data |-> IF save = <<>> THEN df ELSE SaveData(df, save[1]),
          log |-> [lg EXCEPT
                     !.bcasts = @ \o msgs,
                     !.cur = IF msgs = <<>> THEN @ ELSE NoBcastLog,
                     !.saved = IF save = <<>> THEN @
                               ELSE SaveData(df, save[1])]]

\* checkPriceChanges from the response of the fetch to the first awaited
\* send or the return (lines 252-316)
CycleAfterFetch(p, uf, df, lg0) ==
    LET lg == [lg0 EXCEPT !.fetched = <<p>>]
        newData == ParseEntry(p)
        previousData == LoadData(df)
        lgl == [lg EXCEPT !.prev = previousData, !.loaded = TRUE]
    IN  IF p.shape = "empty"
        THEN [c |-> CycleDone, data |-> df, log |-> lg]
        ELSE IF p.shape = "nolist"
        THEN [c |-> CycleDone, data |-> df, log |-> [lg EXCEPT !.threw = TRUE]]
        ELSE IF previousData = NoData
        THEN LET saved == SaveData(df, newData)
                 m == PriceListMessage(newData)
                 lgs == [lgl EXCEPT !.saved = saved]
             IN  IF m.thrown
                 THEN [c |-> CycleDone, data |-> saved,
                       log |-> [lgs EXCEPT !.threw = TRUE]]
                 ELSE CycleContinue(<<m.v>>, <<>>, uf, saved, lgs)
        ELSE LET adj == Adjust(newData)
                 ms == NotificationMessages(previousData[1], adj)
             IN  IF ms.thrown
                 THEN [c |-> CycleDone, data |-> df,
                       log |-> [lgl EXCEPT !.threw = TRUE]]
                 ELSE CycleContinue(ms.v, <<adj>>, uf, df, lgl)

(* --------------------------- detection cycle -------------------------- *)
\* checkPriceChanges() is called (at startup, line 457, or by the cron
\* schedule, line 462) and runs to the await of the fetch.  Nothing keeps
\* a call from starting while another is in flight.
Tick(c) ==
    /\ cyc[c].pc \in {"idle", "done"}
    /\ \A k \in 1..(c - 1) : cyc[k].pc \notin {"idle", "done"}
    /\ cyc' = [cyc EXCEPT ![c] = CycleLocals("fetch", <<>>, <<>>, NoBroadcast)]
    /\ clog' = [clog EXCEPT ![c] = CycleLog0]
    /\ UNCHANGED <<usersFile, dataFile, upd, ulog, fresh>>

\* the rejection swallowed without a message to the admin
FetchFailedSilent(c) ==
    /\ cyc[c].pc = "fetch"
    /\ cyc' = [cyc EXCEPT ![c].pc = "alert"]
    /\ clog' = [clog EXCEPT ![c].fetched = <<FetchError>>]
    /\ UNCHANGED <<usersFile, dataFile, upd, ulog, fresh>>

\* axios.post of fetchData rejects: the catch starts the admin message
FetchFailed(c) ==
    /\ cyc[c].pc = "fetch"
    /\ cyc' = [cyc EXCEPT ![c].pc = "alert"]
    /\ clog' = [clog EXCEPT
                  ![c].fetched = <<FetchError>>,
                  ![c].direct = Append(@, Direct(ADMIN_CHAT_ID,
                                                 Msg("DATA_FETCH_ERROR", <<>>)))]
    /\ UNCHANGED <<usersFile, dataFile, upd, ulog, fresh>>

\* the admin message is over: fetchData returns null, the cycle returns
Alerted(c) ==
    /\ cyc[c].pc = "alert"
    /\ cyc' = [cyc EXCEPT ![c] = CycleDone]
    /\ UNCHANGED <<usersFile, dataFile, upd, clog, ulog, fresh>>

\* axios.post of fetchData resolves with response p
Fetched(c, p) ==
    /\ cyc[c].pc = "fetch"
    /\ p.shape # "error"
    /\ LET r == CycleAfterFetch(p, usersFile, dataFile, clog[c])
       IN  /\ cyc' = [cyc EXCEPT ![c] = r.c]
           /\ dataFile' = r.data
           /\ clog' = [clog EXCEPT ![c] = r.log]
    /\ fresh' = (fresh /\ ~WellFormed(p))
    /\ UNCHANGED <<usersFile, upd, ulog>>

\* the awaited send of the cycle's broadcast ends, `sent` its result
CycleSend(c, sent) ==
    /\ cyc[c].pc = "send"
    /\ LET b == BroadcastStep(cyc[c].b, sent)
           lg == [clog[c] EXCEPT !.cur =
                      BcastLogStep(@, BroadcastTarget(cyc[c].b, usersFile),
                                   sent, b, usersFile)]
       IN  IF BroadcastDone(b)
           THEN LET r == CycleContinue(cyc[c].messages, cyc[c].save,
                                       usersFile, dataFile, lg)
                IN  /\ cyc' = [cyc EXCEPT ![c] = r.c]
                    /\ dataFile' = r.data
                    /\ clog' = [clog EXCEPT ![c] = r.log]
           ELSE /\ cyc' = [cyc EXCEPT ![c].b = b]
                /\ clog' = [clog EXCEPT ![c] = lg]
                /\ UNCHANGED dataFile
    /\ UNCHANGED <<usersFile, upd, ulog, fresh>>

(* --------------------------- inbound updates -------------------------- *)
\* A message text is a sequence of words and single spaces (" ").
SlashWords == {"/start", "/stop", "/help", "/broadcast", "/price"}
Texts ==
    {<<"/start">>, <<"/stop">>, <<"/help">>, <<"/price">>, <<"hello">>,
     <<"/broadcast">>, <<"/broadcast", " ">>, <<"/broadcast", " ", "hello">>,
     <<>>}

\* messageText.startsWith('/')
StartsWithSlash(text) == text # <<>> /\ Head(text) \in SlashWords

\* messageText.split(' ')[0]
RECURSIVE FirstWord(_)
FirstWord(text) ==
    IF text = <<>> \/ Head(text) = " " THEN <<>>
    ELSE <<Head(text)>> \o FirstWord(Tail(text))

\* String.prototype.trim
RECURSIVE TrimLeft(_)
TrimLeft(text) ==
    IF text # <<>> /\ Head(text) = " " THEN TrimLeft(Tail(text)) ELSE text
RECURSIVE TrimRight(_)
TrimRight(text) ==
    IF text # <<>> /\ text[Len(text)] = " "
    THEN TrimRight(SubSeq(text, 1, Len(text) - 1))
    ELSE text
Trim(text) == TrimRight(TrimLeft(text))

\* messageText.substring(command.length).trim()
Args(text) ==
    Trim(SubSeq(text, Len(FirstWord(text)) + 1, Len(text)))

\* the sender never compared with the admin
IsAdminAnyone(chatId) == chatId \in ChatIds

\* chatId.toString() === ADMIN_CHAT_ID
IsAdmin(chatId) == ChatIdToString(chatId) = ADMIN_CHAT_ID

\* update.message.from.username || 'unknown'
Username(chatId) ==
    IF FromUsername(chatId) = "" THEN "unknown" ELSE FromUsername(chatId)

\* locals of a processUpdate invocation
\*   pc: "idle" not delivered, "reply" awaiting a sendTelegramMessage to
\*       the sender, "send" awaiting a send of broadcastMessage, "done"
\*       returned, "rejected" ended by an exception
\*   after: what follows the awaited reply: "price" the price list of a
\*       new subscriber (lines 360-373), "end" the return
UpdateLocals(pc, chatId, after, b) ==
    [pc |-> pc, chatId |-> chatId, after |-> after, b |-> b]
UpdateIdle == UpdateLocals("idle", 0, "end", NoBroadcast)
UpdateEnd(pc) == UpdateLocals(pc, 0, "end", NoBroadcast)

\* History of one processUpdate invocation
\*   from, command, args: the sender and the parsed text of the update
\*   ret: <<r>> once addUser or removeUser has returned r
\*   bcasts, cur, direct: as for a detection cycle
\*   io: <<rd, wr>> when the reads of USERS_FILE succeed iff rd and the
\*       writes iff wr; <<>> when nothing is said about them
UpdateLog0 ==
    [from |-> 0, command |-> <<>>, args |-> <<>>, ret |-> <<>>,
     bcasts |-> <<>>, cur |-> NoBcastLog, direct |-> <<>>, io |-> <<>>]

\* a sendTelegramMessage(chatId, msg) of processUpdate is started
Reply(chatId, msg, after, lg) ==
    [u |-> UpdateLocals("reply", chatId, after, NoBroadcast),
     log |-> [lg EXCEPT !.direct =
                  Append(@, Direct(ChatIdToString(chatId), msg))]]

\* case COMMANDS.BROADCAST (lines 392-408) up to its first await
BroadcastCommand(chatId, args, uf, lg) ==
    IF ~IsAdmin(chatId)
    THEN Reply(chatId, Msg("UNAUTHORIZED", <<>>), "end", lg)
    ELSE IF args # <<>>
    THEN IF LoadUsers(uf) = <<>>
         THEN Reply(chatId, Msg("BROADCAST_SENT", <<Num(0)>>), "end",
                    [lg EXCEPT !.bcasts = Append(@, Msg("TEXT", args)),
                               !.cur = NoBcastLog])
         ELSE [u |-> UpdateLocals("send", chatId, "end",
                                  BroadcastStart(uf, Msg("TEXT", args))),
               log |-> [lg EXCEPT !.bcasts = Append(@, Msg("TEXT", args)),
                                  !.cur = BcastLog(uf)]]
    ELSE Reply(chatId, Msg("PROVIDE_MESSAGE", <<>>), "end", lg)

\* processUpdate(update) from its call to its first await or its return
\* (lines 340-419): the locals, USERS_FILE and the history afterwards
ProcessUpdate(chatId, text, uf, lg0) ==
    LET command == FirstWord(text)
        lg == [lg0 EXCEPT !.from = chatId, !.command = command,
                          !.args = Args(text)]
        keep(r) == [u |-> r.u, users |-> uf, log |-> r.log]
    IN  IF ~StartsWithSlash(text)
        THEN IF ~IsAdmin(chatId)
             THEN keep(Reply(chatId, Msg("HELP_HINT", <<>>), "end", lg))
             ELSE [u |-> UpdateEnd("done"), users |-> uf, log |-> lg]
        ELSE IF command = <<COMMANDS.START>>
        THEN LET a == AddUser(uf, chatId, Username(chatId))
                 r == Reply(chatId,
                            IF a.ret THEN Msg("WELCOME", <<>>)
                            ELSE Msg("ALREADY_SUBSCRIBED", <<>>),
                            IF a.ret THEN "price" ELSE "end",
                            [lg EXCEPT !.ret = <<a.ret>>])
             IN  [u |-> r.u, users |-> a.file, log |-> r.log]
        ELSE IF command = <<COMMANDS.STOP>>
        THEN LET a == RemoveUser(uf, chatId)
                 r == Reply(chatId,
                            IF a.ret THEN Msg("UNSUBSCRIBED", <<>>)
                            ELSE Msg("NOT_SUBSCRIBED", <<>>),
                            "end", [lg EXCEPT !.ret = <<a.ret>>])
             IN  [u |-> r.u, users |-> a.file, log |-> r.log]
        ELSE IF command = <<COMMANDS.HELP>>
        THEN keep(Reply(chatId,
                        IF IsAdmin(chatId) THEN Msg("HELP_ADMIN_HELP", <<>>)
                        ELSE Msg("HELP", <<>>),
                        "end", lg))
        ELSE IF command = <<COMMANDS.BROADCAST>>
        THEN keep(BroadcastCommand(chatId, Args(text), uf, lg))
        ELSE keep(Reply(chatId, Msg("UNKNOWN_COMMAND", <<>>), "end", lg))

\* the webhook delivers an update with a message (line 433)
Receive(u, chatId, text) ==
    /\ upd[u].pc \in {"idle", "done", "rejected"}
    /\ \A k \in 1..(u - 1) : upd[k].pc \notin {"idle", "done", "rejected"}
    /\ LET r == ProcessUpdate(chatId, text, usersFile, UpdateLog0)
       IN  /\ upd' = [upd EXCEPT ![u] = r.u]
           /\ usersFile' = r.users
           /\ ulog' = [ulog EXCEPT ![u] = r.log]
    /\ UNCHANGED <<dataFile, cyc, clog, fresh>>

\* Shapes of an update that carries no usable message: no message field
\* at all, or a message without the chat field
BrokenShapes == {"nomessage", "nochat"}

\* the webhook delivers such an update: processUpdate returns at line 341,
\* or update.message.chat.id raises at line 343 and, nothing catching it,
\* the promise of processUpdate is rejected
ReceiveBroken(u, shape) ==
    /\ upd[u].pc \in {"idle", "done", "rejected"}
    /\ \A k \in 1..(u - 1) : upd[k].pc \notin {"idle", "done", "rejected"}
    /\ upd' = [upd EXCEPT ![u] =
                  UpdateEnd(IF shape = "nomessage" THEN "done" ELSE "rejected")]
    /\ ulog' = [ulog EXCEPT ![u] = UpdateLog0]
    /\ UNCHANGED <<usersFile, dataFile, cyc, clog, fresh>>

\* the awaited reply is over; a new subscriber is then sent the price list
\* when a snapshot is stored
Replied(u) ==
    /\ upd[u].pc = "reply"
    /\ LET currentData == LoadData(dataFile)
           m == PriceListMessage(currentData[1])
       IN  IF upd[u].after = "price" /\ currentData # NoData
           THEN IF m.thrown
                THEN /\ upd' = [upd EXCEPT ![u] = UpdateEnd("rejected")]
                     /\ UNCHANGED ulog
                ELSE LET r == Reply(upd[u].chatId, m.v, "end", ulog[u])
                     IN  /\ upd' = [upd EXCEPT ![u] = r.u]
                         /\ ulog' = [ulog EXCEPT ![u] = r.log]
           ELSE /\ upd' = [upd EXCEPT ![u] = UpdateEnd("done")]
                /\ UNCHANGED ulog
    /\ UNCHANGED <<usersFile, dataFile, cyc, clog, fresh>>

\* the awaited send of the admin's broadcast ends, `sent` its result; after
\* the last one the count is reported to the admin
UpdateSend(u, sent) ==
    /\ upd[u].pc = "send"
    /\ LET b == BroadcastStep(upd[u].b, sent)
           lg == [ulog[u] EXCEPT !.cur =
                      BcastLogStep(@, BroadcastTarget(upd[u].b, usersFile),
                                   sent, b, usersFile)]
       IN  IF BroadcastDone(b)
           THEN LET r == Reply(upd[u].chatId,
                               Msg("BROADCAST_SENT", <<Num(b.sentCount)>>),
                               "end", lg)
                IN  /\ upd' = [upd EXCEPT ![u] = r.u]
                    /\ ulog' = [ulog EXCEPT ![u] = r.log]
           ELSE /\ upd' = [upd EXCEPT ![u].b = b]
                /\ ulog' = [ulog EXCEPT ![u] = lg]
    /\ UNCHANGED <<usersFile, dataFile, cyc, clog, fresh>>

(* --------------------------- specification ---------------------------- *)
\* The state once the process is up: DATA_FILE was deleted (line 448),
\* no handler has run; USERS_FILE is empty or missing.
Init ==
    /\ usersFile = <<>>
    /\ dataFile = DeleteDataFile(NoData)
    /\ cyc = [c \in Cycles |-> CycleIdle]
    /\ upd = [u \in Updates |-> UpdateIdle]
    /\ clog = [c \in Cycles |-> CycleLog0]
    /\ ulog = [u \in Updates |-> UpdateLog0]
    /\ fresh = TRUE

Next ==
    \/ \E c \in Cycles : Tick(c)
    \/ \E c \in Cycles : FetchFailed(c)
    \/ \E c \in Cycles : Alerted(c)
    \/ \E c \in Cycles, p \in Payloads : Fetched(c, p)
    \/ \E c \in Cycles, sent \in BOOLEAN : CycleSend(c, sent)
    \/ \E u \in Updates, chatId \in ChatIds, text \in Texts :
          Receive(u, chatId, text)
    \/ \E u \in Updates, shape \in BrokenShapes : ReceiveBroken(u, shape)
    \/ \E u \in Updates : Replied(u)
    \/ \E u \in Updates, sent \in BOOLEAN : UpdateSend(u, sent)

Spec == Init /\ [][Next]_vars

(* ============================== claims ================================ *)
Free == {"idle", "done", "rejected"}

\* no two records of a user list have the same chatId
NoDuplicate(users) ==
    \A j, k \in 1..Len(users) : users[j].chatId = users[k].chatId => j = k

\* the step is the delivery of a /start to slot u
StartDelivered(u) ==
    /\ upd[u].pc \in Free
    /\ upd'[u].pc = "reply"
    /\ ulog'[u].command = <<"/start">>

\* C1: whatever /start and /stop commands are handled, by whomever and in
\* whatever order, USERS_FILE never holds two records of one chat; and a
\* /start of a chat that is already in it gets false from addUser and
\* leaves USERS_FILE as it was.
C1_OneRecordPerIdentity ==
    [][/\ NoDuplicate(usersFile) /\ NoDuplicate(usersFile')
       /\ \A u \in Updates :
            StartDelivered(u) /\ HasChat(usersFile, ulog'[u].from)
            => ulog'[u].ret = <<FALSE>> /\ usersFile' = usersFile]_vars

\* a second /start of a subscriber was answered while two chats subscribe
C1_Witness ==
    \E u \in Updates :
        /\ ulog[u].command = <<"/start">>
        /\ ulog[u].ret = <<FALSE>>
        /\ Len(usersFile) = 2

(* ---------------------- detection cycle claims ------------------------ *)
CycleReturned(c) == cyc[c].pc = "done" /\ clog[c].fetched # <<>>
FetchedOf(c) == clog[c].fetched[1]
\* the fetched price pair as numbers, with its lastUpdate
RawOf(p) == Data(ParseFloat(p.hargaJual), ParseFloat(p.hargaBeli), p.lastUpdate)
\* the pair with the margin applied
AdjustedOf(p) ==
    Data(JsMinus(ParseFloat(p.hargaJual), 1000),
         JsPlus(ParseFloat(p.hargaBeli), 1000), p.lastUpdate)
NumericPrices(p) ==
    /\ p.shape = "entry"
    /\ IsNum(ParseFloat(p.hargaJual)) /\ IsNum(ParseFloat(p.hargaBeli))
Fired(c, t) == \E k \in 1..Len(clog[c].bcasts) : clog[c].bcasts[k].t = t
AdminAlert == Direct(ADMIN_CHAT_ID, Msg("DATA_FETCH_ERROR", <<>>))

\* C2: a cycle that finds no stored snapshot and whose fetch returned a
\* well-formed entry has stored the fetched pair unadjusted, and has made
\* exactly one broadcast, the price list, tried on every chat that was in
\* USERS_FILE when it began; it sent nothing else.
C2_FirstCycleVerbatim ==
    \A c \in Cycles :
        CycleReturned(c) /\ WellFormed(FetchedOf(c))
        /\ clog[c].loaded /\ clog[c].prev = NoData
        => /\ clog[c].saved = <<RawOf(FetchedOf(c))>>
           /\ Len(clog[c].bcasts) = 1
           /\ clog[c].bcasts[1] =
                Msg("PRICE_LIST",
                    <<RawOf(FetchedOf(c)).buyPrice,
                      RawOf(FetchedOf(c)).sellPrice, <<"2025-04-20", 0>> >>)
           /\ clog[c].cur.done
           /\ clog[c].cur.tried = clog[c].cur.rcpts
           /\ clog[c].direct = <<>>

\* a first cycle has announced the price list to two subscribers
C2_Witness ==
    \E c \in Cycles :
        /\ CycleReturned(c) /\ WellFormed(FetchedOf(c))
        /\ clog[c].loaded /\ clog[c].prev = NoData
        /\ Len(clog[c].cur.tried) = 2

\* C3: with a stored snapshot P and fetched prices (b, s), buy-price-dropped
\* is broadcast iff b - 1000 < P.buy, sell-price-increased iff
\* s + 1000 > P.sell, each as a broadcast of its own, buy-drop first.
C3_NotifyIffCrossed ==
    \A c \in Cycles :
        CycleReturned(c) /\ NumericPrices(FetchedOf(c))
        /\ clog[c].loaded /\ clog[c].prev # NoData
        => LET P == clog[c].prev[1]
               a == AdjustedOf(FetchedOf(c))
               buy == IsNum(P.buyPrice) /\ a.buyPrice[2] < P.buyPrice[2]
               sell == IsNum(P.sellPrice) /\ a.sellPrice[2] > P.sellPrice[2]
           IN  /\ IsNum(P.buyPrice) => (Fired(c, "BUY_PRICE_DROPPED") <=> buy)
               /\ IsNum(P.sellPrice)
                  => (Fired(c, "SELL_PRICE_INCREASED") <=> sell)
               /\ Len(clog[c].bcasts) =
                    (IF Fired(c, "BUY_PRICE_DROPPED") THEN 1 ELSE 0)
                    + (IF Fired(c, "SELL_PRICE_INCREASED") THEN 1 ELSE 0)
               /\ Len(clog[c].bcasts) = 2
                  => clog[c].bcasts[1].t = "BUY_PRICE_DROPPED"

\* C4: a cycle that finds a stored snapshot and whose fetch returned a
\* well-formed entry has, when it returns, written the margin-adjusted pair
\* to DATA_FILE, whatever it notified.
C4_AlwaysPersistAdjusted ==
    \A c \in Cycles :
        CycleReturned(c) /\ WellFormed(FetchedOf(c))
        /\ clog[c].loaded /\ clog[c].prev # NoData
        => clog[c].saved = <<AdjustedOf(FetchedOf(c))>>

\* the step is one of cycle c, whose fetch was rejected
FailedFetchStep(c) ==
    /\ \/ cyc[c].pc = "fetch" /\ cyc'[c].pc = "alert"
       \/ cyc[c].pc = "alert" /\ cyc'[c].pc = "done"
    /\ clog'[c].fetched = <<FetchError>>

\* C5: a cycle whose fetch is rejected never changes DATA_FILE, sends one
\* message, to the admin chat, and broadcasts nothing.
C5_FetchFailureAlertsAdminOnly ==
    [][\A c \in Cycles :
          FailedFetchStep(c)
          => /\ dataFile' = dataFile
             /\ clog'[c].direct = <<AdminAlert>>
             /\ clog'[c].bcasts = <<>>
             /\ clog'[c].saved = <<>>]_vars

\* a cycle has returned after a rejected fetch while a snapshot is stored
C5_Witness ==
    \E c \in Cycles :
        /\ CycleReturned(c) /\ FetchedOf(c) = FetchError
        /\ dataFile # NoData
        /\ usersFile # <<>>

\* a response that is empty, or has no first price-list entry, or whose
\* price fields are not numbers
Malformed(p) ==
    \/ p.shape \in {"empty", "nolist"}
    \/ p.shape = "entry" /\ ~NumericPrices(p)

\* C6: a missing or malformed payload is handled as a rejected fetch: the
\* admin is sent the error message, nothing is broadcast, DATA_FILE is not
\* written.
C6_MalformedIsFetchFailure ==
    \A c \in Cycles :
        CycleReturned(c) /\ Malformed(FetchedOf(c))
        => /\ clog[c].direct = <<AdminAlert>>
           /\ clog[c].bcasts = <<>>
           /\ clog[c].saved = <<>>

\* C7: a cycle in which an exception was raised while parsing, comparing
\* or formatting has not written DATA_FILE.
C7_FailClosed ==
    \A c \in Cycles :
        CycleReturned(c) /\ clog[c].threw => clog[c].saved = <<>>

(* --------------------------- broadcast claims ------------------------- *)
\* the histories of the latest broadcast of every handler
BroadcastLogs ==
    {clog[c].cur : c \in Cycles} \cup {ulog[u].cur : u \in Updates}

\* C8: a finished broadcast over N users of which M sends failed has tried
\* all N and returned N - M; the count reported to the admin is that value.
C8_BroadcastCountsSuccesses ==
    /\ \A l \in BroadcastLogs :
          l.done => /\ Len(l.tried) = Len(l.rcpts)
                    /\ l.ret = Len(l.rcpts) - l.fails
    /\ \A u \in Updates :
          ulog[u].bcasts # <<>> /\ ulog[u].cur.done
          => /\ upd[u].pc # "rejected"
             /\ ulog[u].direct =
                  <<Direct(ChatIdToString(ulog[u].from),
                           Msg("BROADCAST_SENT",
                               <<Num(Len(ulog[u].cur.rcpts)
                                     - ulog[u].cur.fails)>>))>>

\* a broadcast over two users went on after its first send had failed
C8_Witness ==
    \E l \in BroadcastLogs :
        l.done /\ Len(l.rcpts) = 2 /\ l.fails = 1 /\ l.ret = 1

\* C9: the chats a broadcast sends to are those in USERS_FILE when it began,
\* in that order, whatever is subscribed or unsubscribed meanwhile.
C9_RecipientsReadOnce ==
    \A l \in BroadcastLogs :
        /\ Len(l.tried) <= Len(l.rcpts)
        /\ l.tried = SubSeq(l.rcpts, 1, Len(l.tried))
        /\ l.done => l.tried = l.rcpts

\* a broadcast has finished that started a send after USERS_FILE changed
C9_Witness ==
    \E l \in BroadcastLogs : l.done /\ l.moved /\ Len(l.rcpts) = 2

(* ---------------------------- command claims -------------------------- *)
\* C10: a /broadcast from a chat other than the admin gets one reply,
\* unauthorized, and broadcasts nothing; text of a command is broadcast
\* only for the admin and only when the argument is not empty.
C10_BroadcastAdminOnly ==
    \A u \in Updates :
        /\ ulog[u].command = <<"/broadcast">>
           /\ ChatIdToString(ulog[u].from) # ADMIN_CHAT_ID
           => /\ ulog[u].direct =
                   <<Direct(ChatIdToString(ulog[u].from),
                            Msg("UNAUTHORIZED", <<>>))>>
              /\ ulog[u].bcasts = <<>>
        /\ ulog[u].bcasts # <<>>
           => /\ ChatIdToString(ulog[u].from) = ADMIN_CHAT_ID
              /\ ulog[u].command = <<"/broadcast">>
              /\ ulog[u].args # <<>>
              /\ ulog[u].bcasts = <<Msg("TEXT", ulog[u].args)>>

\* a /broadcast with text from a chat other than the admin was answered
\* while somebody subscribes
C10_Witness ==
    \E u \in Updates :
        /\ ulog[u].command = <<"/broadcast">>
        /\ ulog[u].args # <<>>
        /\ ChatIdToString(ulog[u].from) # ADMIN_CHAT_ID
        /\ upd[u].pc = "done"
        /\ usersFile # <<>>

\* the step is the end of the first reply to a /start in slot u
StartReplied(u) ==
    /\ upd[u].pc = "reply"
    /\ ulog[u].command = <<"/start">>
    /\ Len(ulog[u].direct) = 1
    /\ upd'[u] # upd[u]

PriceListSent(l) == Len(l.direct) = 2 /\ l.direct[2].msg.t = "PRICE_LIST"

\* C11: a /start is answered welcome when the sender was added and
\* already-subscribed otherwise; the price list is then sent, to the sender,
\* exactly when the sender was added and a snapshot is stored.
C11_StartReplies ==
    [][\A u \in Updates :
          /\ StartDelivered(u)
             => LET id == ulog'[u].from
                    new == ~HasChat(usersFile, id)
                IN  /\ ulog'[u].ret = <<new>>
                    /\ ulog'[u].direct =
                         <<Direct(ChatIdToString(id),
                                  IF new THEN Msg("WELCOME", <<>>)
                                  ELSE Msg("ALREADY_SUBSCRIBED", <<>>))>>
          /\ StartReplied(u)
             => /\ PriceListSent(ulog'[u])
                   <=> (ulog[u].ret = <<TRUE>> /\ dataFile # NoData)
                /\ PriceListSent(ulog'[u])
                   => ulog'[u].direct[2].to = ChatIdToString(ulog[u].from)
                /\ ~PriceListSent(ulog'[u]) => ulog'[u].direct = ulog[u].direct
      ]_vars

\* the step is the delivery of a /stop to slot u
StopDelivered(u) ==
    /\ upd[u].pc \in Free
    /\ upd'[u].pc = "reply"
    /\ ulog'[u].command = <<"/stop">>

OverlapCycles == 1..(MaxCycles + 1)

\* The process is stopped and started again: the in-flight handlers are
\* gone, DATA_FILE is deleted (line 448), USERS_FILE is kept.
Restart ==
    /\ dataFile' = DeleteDataFile(dataFile)
    /\ cyc' = [c \in DOMAIN cyc |-> CycleIdle]
    /\ upd' = [u \in DOMAIN upd |-> UpdateIdle]
    /\ clog' = [c \in DOMAIN clog |-> CycleLog0]
    /\ ulog' = [u \in DOMAIN ulog |-> UpdateLog0]
    /\ fresh' = TRUE
    /\ UNCHANGED usersFile

\* The process is up with both chats subscribed in an earlier run
InitOverlap ==
    /\ usersFile = AddUser(AddUser(<<>>, 1, Username(1)).file,
                           2, Username(2)).file
    /\ dataFile = DeleteDataFile(NoData)
    /\ cyc = [c \in OverlapCycles |-> CycleIdle]
    /\ upd = [u \in Updates |-> UpdateIdle]
    /\ clog = [c \in OverlapCycles |-> CycleLog0]
    /\ ulog = [u \in Updates |-> UpdateLog0]
    /\ fresh = TRUE

NextOverlap ==
    \/ \E c \in OverlapCycles : Tick(c)
    \/ \E c \in OverlapCycles : FetchFailed(c)
    \/ \E c \in OverlapCycles : Alerted(c)
    \/ \E c \in OverlapCycles, p \in Payloads : Fetched(c, p)
    \/ \E c \in OverlapCycles, sent \in BOOLEAN : CycleSend(c, sent)
    \/ Restart

SpecOverlap == InitOverlap /\ [][NextOverlap]_vars

(* ------------------------- concurrent updates ------------------------ *)
\* The webhook handler does not await processUpdate (line 433): an update
\* is taken up while earlier ones await their sends; one more invocation
\* than Spec has can be in flight.
ConcurrentUpdates == 1..(MaxUpdates + 1)

\* The commands that change USERS_FILE, and one response of the price API
ConcurrentTexts == {<<"/start">>, <<"/stop">>}
ConcurrentPayloads ==
    {p \in Payloads : WellFormed(p) /\ p.hargaJual = "100000"
                                    /\ p.hargaBeli = "95000"}

InitConcurrent ==
    /\ usersFile = <<>>
    /\ dataFile = DeleteDataFile(NoData)
    /\ cyc = [c \in Cycles |-> CycleIdle]
    /\ upd = [u \in ConcurrentUpdates |-> UpdateIdle]
    /\ clog = [c \in Cycles |-> CycleLog0]
    /\ ulog = [u \in ConcurrentUpdates |-> UpdateLog0]
    /\ fresh = TRUE

NextConcurrent ==
    \/ \E c \in Cycles : Tick(c)
    \/ \E c \in Cycles : FetchFailed(c)
    \/ \E c \in Cycles : Alerted(c)
    \/ \E c \in Cycles, p \in ConcurrentPayloads : Fetched(c, p)
    \/ \E c \in Cycles, sent \in BOOLEAN : CycleSend(c, sent)
    \/ \E u \in ConcurrentUpdates, chatId \in ChatIds,
             text \in ConcurrentTexts :
          Receive(u, chatId, text)
    \/ \E u \in ConcurrentUpdates : Replied(u)

SpecConcurrent == InitConcurrent /\ [][NextConcurrent]_vars

(* ------------------- failing subscriber file I/O --------------------- *)
\* loadUsers() when the read may fail: the catch of line 90 returns []
LoadUsersIO(file, rd) == IF rd THEN LoadUsers(file) ELSE <<>>

\* saveUsers(users) when the write may fail: the catch of line 104 logs
\* the error and returns, USERS_FILE is as before
SaveUsersIO(file, users, wr) == IF wr THEN SaveUsers(file, users) ELSE file

\* addUser(chatId, username) with these
AddUserIO(file, id, name, rd, wr) ==
    LET users == LoadUsersIO(file, rd)
    IN  IF HasChat(users, id)
        THEN [ret |-> FALSE, file |-> file]
        ELSE [ret |-> TRUE,
              file |-> SaveUsersIO(file, Append(users, User(id, name)), wr)]

\* removeUser(chatId) with these
RemoveUserIO(file, id, rd, wr) ==
    LET users == LoadUsersIO(file, rd)
        Other(u) == u.chatId # id
        filteredUsers == SelectSeq(users, Other)
    IN  IF Len(filteredUsers) < Len(users)
        THEN [ret |-> TRUE, file |-> SaveUsersIO(file, filteredUsers, wr)]
        ELSE [ret |-> FALSE, file |-> file]

\* processUpdate(update) for /start and /stop (lines 355-379) up to the
\* awaited reply, the file reads succeeding iff rd, the writes iff wr
ProcessUpdateIO(chatId, text, uf, lg0, rd, wr) ==
    LET command == FirstWord(text)
        lg == [lg0 EXCEPT !.from = chatId, !.command = command,
                          !.args = Args(text), !.io = <<rd, wr>>]
    IN  IF command = <<COMMANDS.START>>
        THEN LET a == AddUserIO(uf, chatId, Username(chatId), rd, wr)
                 r == Reply(chatId,
                            IF a.ret THEN Msg("WELCOME", <<>>)
                            ELSE Msg("ALREADY_SUBSCRIBED", <<>>),
                            IF a.ret THEN "price" ELSE "end",
                            [lg EXCEPT !.ret = <<a.ret>>])
             IN  [u |-> r.u, users |-> a.file, log |-> r.log]
        ELSE LET a == RemoveUserIO(uf, chatId, rd, wr)
                 r == Reply(chatId,
                            IF a.ret THEN Msg("UNSUBSCRIBED", <<>>)
                            ELSE Msg("NOT_SUBSCRIBED", <<>>),
                            "end", [lg EXCEPT !.ret = <<a.ret>>])
             IN  [u |-> r.u, users |-> a.file, log |-> r.log]

\* the webhook delivers a /start or a /stop
ReceiveIO(u, chatId, text, rd, wr) ==
    /\ upd[u].pc \in {"idle", "done", "rejected"}
    /\ \A k \in 1..(u - 1) : upd[k].pc \notin {"idle", "done", "rejected"}
    /\ FirstWord(text) \in {<<COMMANDS.START>>, <<COMMANDS.STOP>>}
    /\ LET r == ProcessUpdateIO(chatId, text, usersFile, UpdateLog0, rd, wr)
       IN  /\ upd' = [upd EXCEPT ![u] = r.u]
           /\ usersFile' = r.users
           /\ ulog' = [ulog EXCEPT ![u] = r.log]
    /\ UNCHANGED <<dataFile, cyc, clog, fresh>>

\* Updates are handled while reads and writes of USERS_FILE may fail
NextIO ==
    \/ \E u \in Updates, chatId \in ChatIds, text \in Texts, rd, wr \in BOOLEAN :
          ReceiveIO(u, chatId, text, rd, wr)
    \/ \E u \in Updates, chatId \in ChatIds, text \in Texts :
          Receive(u, chatId, text)
    \/ \E u \in Updates : Replied(u)
    \/ \E u \in Updates, sent \in BOOLEAN : UpdateSend(u, sent)

SpecIO == Init /\ [][NextIO]_vars

(* ------------------------ error boundary claims ---------------------- *)
\* C13: no handler ends with an exception that nothing caught: neither a
\* detection cycle nor the handling of an update, whatever the update and
\* the stored snapshot are.
C13_NothingEscapes ==
    \A u \in Updates : upd[u].pc # "rejected"

\* C14: at most one checkPriceChanges invocation is between its start and
\* its completion at any time.
InFlight(c) == cyc[c].pc \in {"fetch", "alert", "send"}
C14_NoOverlap ==
    \A c, d \in DOMAIN cyc : InFlight(c) /\ InFlight(d) => c = d

\* C15: the first cycle of a process whose fetch succeeds finds no snapshot
\* stored and broadcasts the price list of the fetched prices, and no
\* snapshot is stored before it.
FirstFetched(c) ==
    /\ fresh /\ cyc[c].pc = "fetch" /\ clog'[c].fetched # <<>>
    /\ WellFormed(clog'[c].fetched[1])
C15_FirstCycleAnnounces ==
    [][\A c \in DOMAIN cyc :
          FirstFetched(c) =>
              /\ dataFile = NoData
              /\ clog'[c].prev = NoData
              /\ clog'[c].bcasts =
                   <<PriceListMessage(RawOf(clog'[c].fetched[1])).v>>]_vars

\* C20: between two deletions of DATA_FILE the price list is announced at
\* most once, overlapping cycles included: the invocation that starts the
\* announcement found no snapshot and has stored one in the same step, no
\* other invocation's history holds an announcement, and only a start of
\* the process removes a stored snapshot.
Announced(l) == \E k \in 1..Len(l.bcasts) : l.bcasts[k].t = "PRICE_LIST"
C20_AnnouncedOnce ==
    [][/\ \A c \in DOMAIN cyc :
             ~Announced(clog[c]) /\ Announced(clog'[c]) =>
                 /\ LoadData(dataFile) = NoData
                 /\ LoadData(dataFile') # NoData
                 /\ \A d \in DOMAIN cyc \ {c} : ~Announced(clog[d])
       /\ (dataFile # NoData /\ dataFile' = NoData =>
              fresh' /\ \A c \in DOMAIN cyc : cyc'[c] = CycleIdle)]_vars
\* one invocation is still sending the announcement while a later one,
\* which found the snapshot stored, is sending a notification
C20_Witness ==
    \E c, d \in DOMAIN cyc :
        /\ InFlight(c) /\ Announced(clog[c])
        /\ InFlight(d) /\ clog[d].loaded /\ clog[d].prev # NoData
        /\ clog[d].bcasts # <<>>

(* ------------------------ subscriber file claims --------------------- *)
\* the step is the delivery of a /start or of a /stop to slot u
MutationDelivered(u) == StartDelivered(u) \/ StopDelivered(u)

\* C16: an addUser or removeUser during which the read or the write of
\* USERS_FILE fails leaves USERS_FILE as it was.
C16_FailedIoIsNoOp ==
    [][\A u \in Updates :
          /\ MutationDelivered(u)
          /\ ulog'[u].io # <<>> /\ ulog'[u].io # <<TRUE, TRUE>>
          => usersFile' = usersFile]_vars

\* C17: whenever addUser returns true the sender's record is in USERS_FILE
\* right afterwards, failing writes included.
C17_TrueMeansPersisted ==
    [][\A u \in Updates :
          StartDelivered(u) /\ ulog'[u].ret = <<TRUE>>
          => HasChat(usersFile', ulog'[u].from)]_vars

\* the list after addUser, after removeUser of chat id, applied to users
SeqAdd(users, id) ==
    IF HasChat(users, id) THEN users
    ELSE Append(users, User(id, Username(id)))
SeqRemove(users, id) ==
    LET Other(r) == r.chatId # id IN SelectSeq(users, Other)

\* C18: whatever handlers are in flight, USERS_FILE changes only when a
\* /start or a /stop is taken up, and is then the list before the step
\* with that one addUser or removeUser applied: the file is at any time
\* the result of the calls so far applied one after another.
C18_NoLostUpdate ==
    [][/\ \A u \in DOMAIN upd :
             /\ StartDelivered(u) =>
                    usersFile' = SeqAdd(usersFile, ulog'[u].from)
             /\ StopDelivered(u) =>
                    usersFile' = SeqRemove(usersFile, ulog'[u].from)
       /\ (usersFile' # usersFile => \E u \in DOMAIN upd : MutationDelivered(u))
      ]_vars
\* two updates that changed USERS_FILE await their replies while a cycle
\* is broadcasting to the list it read before them
C18_Witness ==
    \E u, v \in DOMAIN upd, c \in DOMAIN cyc :
        /\ u # v
        /\ upd[u].pc = "reply" /\ ulog[u].ret = <<TRUE>>
        /\ upd[v].pc = "reply" /\ ulog[v].ret = <<TRUE>>
        /\ cyc[c].pc = "send" /\ cyc[c].b.users # usersFile
        /\ Len(usersFile) = 2

(* ----------------------------- margin claim --------------------------- *)
\* what DATA_FILE holds after saveData(d)
Stored(d) == SaveData(NoData, d)
Entries == {p \in Payloads : p.shape = "entry"}

\* C19: DATA_FILE is absent, or holds the raw pair of some response, or
\* its pair with the margin applied once; a cycle that finds stored the
\* adjusted pair of the very response it fetches broadcasts nothing, and a
\* cycle that has broadcast notifications has stored its adjusted pair.
C19_MarginOnce ==
    /\ \/ dataFile = NoData
       \/ \E p \in Entries : dataFile \in {Stored(RawOf(p)), Stored(AdjustedOf(p))}
    /\ \A c \in DOMAIN cyc :
          CycleReturned(c) /\ clog[c].loaded /\ clog[c].prev # NoData =>
              /\ clog[c].prev = Stored(AdjustedOf(FetchedOf(c)))
                     => clog[c].bcasts = <<>>
              /\ clog[c].bcasts # <<>>
                     => clog[c].saved = Stored(AdjustedOf(FetchedOf(c)))
\* a cycle found the adjusted pair of its own response stored: the price
\* was the same for at least three cycles
C19_Witness ==
    \E c \in DOMAIN cyc :
        /\ CycleReturned(c) /\ WellFormed(FetchedOf(c))
        /\ clog[c].loaded
        /\ clog[c].prev = Stored(AdjustedOf(FetchedOf(c)))
        /\ clog[c].saved = Stored(AdjustedOf(FetchedOf(c)))

====
